---- MODULE Spec2Model ----
(***************************************************************************)
(* Model of ncdc_download/gen_station_regions.py (Python 2).               *)
(*                                                                         *)
(* Two specifications share the variables below:                           *)
(*   SpecRegion  one call of get_region(lat, lon) on integers drawn from   *)
(*               a bounded window around the CCAFS grid;                   *)
(*   Spec        one run of main() over a bounded input of text lines.     *)
(*                                                                         *)
(* Text is modelled as sequences of one-character strings, so that         *)
(* split, slicing, the station regular expression and float parsing are    *)
(* computed character by character as the program computes them.  A parsed *)
(* float is an exact decimal <<num, den>> (value num/den, den a power of   *)
(* ten); binary round-off of the addition is not modelled.  An exception   *)
(* is modelled as a distinguished result value.                            *)
(***************************************************************************)
EXTENDS Integers, Sequences, FiniteSets, TLC

VARIABLES
    input,      \* all lines sys.stdin will deliver (fixed during a run)
    rest,       \* lines the iterator over sys.stdin has not yet delivered
    line_num,   \* main's line counter
    stdout,     \* what has been printed
    stderr,     \* what has been written to sys.stderr
    lat,        \* get_region's argument / main's local lat
    lon,        \* get_region's argument / main's local lon
    region,     \* get_region's result / main's local region
    pc          \* position in the program

vars == <<input, rest, line_num, stdout, stderr, lat, lon, region, pc>>

\* Bounds of the model.
LatBound == 95
LonBound == 185
MaxLines == 3

\* A local name that has not been assigned yet.
Unbound == "unbound"

\* Result value standing for a raised exception.
IndexError == "IndexError"
ValueError == <<>>

---------------------------------------------------------------------------
\* Python helpers used by get_region.

abs(n) == IF n < 0 THEN -n ELSE n

DigitChars == <<"0", "1", "2", "3", "4", "5", "6", "7", "8", "9">>

\* str(n) for an integer.
RECURSIVE StrNat(_)
StrNat(n) == IF n < 10 THEN DigitChars[n + 1]
             ELSE StrNat(n \div 10) \o DigitChars[(n % 10) + 1]

str(n) == IF n < 0 THEN "-" \o StrNat(-n) ELSE StrNat(n)

\* s[i] on a Python sequence: negative indices count from the end, anything
\* outside -len..len-1 raises IndexError.
PyIndex(s, i) ==
    IF i >= 0 /\ i < Len(s) THEN s[i + 1]
    ELSE IF i < 0 /\ i >= -Len(s) THEN s[Len(s) + i + 1]
    ELSE IndexError

CBAA == <<"C", "B", "A", "A">>

\* Variants of get_region with one slip each.
get_region_lat100(la, lo) ==
    LET l == IF abs(lo) = 180 THEN -lo ELSE lo IN
    IF la < -60 \/ la > 100 \/ l < -180 \/ l > 179 THEN "D"
    ELSE LET row == PyIndex(CBAA, (la + 60) \div 50) IN
         IF row = IndexError THEN IndexError
         ELSE row \o str((l + 180) \div 60 + 1)

get_region_CBA(la, lo) ==
    LET l == IF abs(lo) = 180 THEN -lo ELSE lo IN
    IF la < -60 \/ la > 90 \/ l < -180 \/ l > 179 THEN "D"
    ELSE LET row == PyIndex(<<"C", "B", "A">>, (la + 60) \div 50) IN
         IF row = IndexError THEN IndexError
         ELSE row \o str((l + 180) \div 60 + 1)

\* get_region(lat, lon); integer / is floor division in Python 2.
get_region(la, lo) ==
    LET l == IF abs(lo) = 180 THEN -lo ELSE lo IN
    IF la < -60 \/ la > 90 \/ l < -180 \/ l > 179 THEN "D"
    ELSE LET row == PyIndex(CBAA, (la + 60) \div 50) IN
         IF row = IndexError THEN IndexError
         ELSE row \o str((l + 180) \div 60 + 1)

---------------------------------------------------------------------------
\* One call of get_region.

InitRegion ==
    /\ lat \in -LatBound .. LatBound
    /\ lon \in -LonBound .. LonBound
    /\ region = Unbound
    /\ pc = "call"
    /\ input = <<>> /\ rest = <<>> /\ line_num = 0
    /\ stdout = <<>> /\ stderr = <<>>

Classify ==
    /\ pc = "call"
    /\ region' = get_region(lat, lon)
    /\ pc' = "returned"
    /\ UNCHANGED <<input, rest, line_num, stdout, stderr, lat, lon>>

NextRegion == Classify

SpecRegion == InitRegion /\ [][NextRegion]_vars

---------------------------------------------------------------------------
\* Claims about get_region, checked under SpecRegion.

RowLetters == {"A", "B", "C"}
GridCodes == {r \o DigitChars[c + 1] : r \in RowLetters, c \in 1..6}

\* The row the claims assign to a latitude of the grid.
RowOf(la) == IF la <= -11 THEN "C" ELSE IF la <= 39 THEN "B" ELSE "A"

\* The longitude after the sign flip of +/-180, stated case by case.
Flipped(lo) == IF lo = 180 THEN -180 ELSE IF lo = -180 THEN 180 ELSE lo

\* C1: for lat in [-60, 90] and lon in [-180, 179], lon = -180 included, the
\* result is a grid code [ABC][1-6] and never "D".
C1_GridCodeOnDomain ==
    (pc = "returned" /\ lat \in -60..90 /\ lon \in -180..179)
        => region \in GridCodes

\* C2: for lat in [-60, 90], get_region(lat, 180) and get_region(lat, -180)
\* are both the column-1 code of the latitude's row.
C2_WrapAround ==
    (pc = "returned" /\ lat \in -60..90 /\ lon \in {-180, 180})
        => region = RowOf(lat) \o "1"

C4_RowAndColumn ==
    (pc = "returned" /\ region # "D") =>
        LET col == (Flipped(lon) + 180) \div 60 + 1 IN
        /\ (lat + 60) \div 50 \in 0..3
        /\ col \in 1..6
        /\ region = RowOf(lat) \o DigitChars[col + 1]
        /\ (lat = 90 /\ lon = 0) => region = "A4"
        /\ (lat = 40 /\ lon = 179) => region = "A6"
        /\ lat \in -60..90

C4_Witness ==
    /\ pc = "returned"
    /\ lat = 90 /\ lon = 0
    /\ region = "A4"

---------------------------------------------------------------------------
\* Text helpers used by main.  A str is a sequence of one-character strings.

Q == "\""
NL == "\n"

IsDigit(c) == \E i \in 1..10 : DigitChars[i] = c

DigitVal(c) == CHOOSE d \in 0..9 : DigitChars[d + 1] = c

IsSpace(c) == c \in {" ", "\t", "\n", "\r"}

\* line.split(","): the fields between the commas, at least one.
RECURSIVE SplitFrom(_, _, _)
SplitFrom(s, i, cur) ==
    IF i > Len(s) THEN <<cur>>
    ELSE IF s[i] = "," THEN <<cur>> \o SplitFrom(s, i + 1, <<>>)
    ELSE SplitFrom(s, i + 1, Append(cur, s[i]))

Split(s) == SplitFrom(s, 1, <<>>)

\* s[1:-1]
Slice1(s) == IF Len(s) <= 2 THEN <<>> ELSE SubSeq(s, 2, Len(s) - 1)

\* "{0}-{1}".format(fields[0][1:-1], fields[1][1:-1])
StationOf(fields) == Slice1(fields[1]) \o <<"-">> \o Slice1(fields[2])

AllDigits(s, from, to) == \A i \in from..to : IsDigit(s[i])

\* Variant of the identifier test with the digit counts one too low.
valid_id_5_4(s) ==
    /\ Len(s) \in {10, 11}
    /\ AllDigits(s, 1, 5)
    /\ s[6] = "-"
    /\ AllDigits(s, 7, 10)
    /\ Len(s) = 11 => s[11] = NL

\* valid_id.match(station) for "^\d{6}-\d{5}$"; $ also matches just before a
\* newline that ends the string.
valid_id(s) ==
    /\ Len(s) \in {12, 13}
    /\ AllDigits(s, 1, 6)
    /\ s[7] = "-"
    /\ AllDigits(s, 8, 12)
    /\ Len(s) = 13 => s[13] = NL

\* s.strip() as float() applies it.
RECURSIVE LStrip(_)
LStrip(s) == IF s # <<>> /\ IsSpace(Head(s)) THEN LStrip(Tail(s)) ELSE s

RECURSIVE RStrip(_)
RStrip(s) == IF s # <<>> /\ IsSpace(s[Len(s)])
             THEN RStrip(SubSeq(s, 1, Len(s) - 1)) ELSE s

\* Value of a string of digits.
RECURSIVE DigitsVal(_)
DigitsVal(s) == IF s = <<>> THEN 0
                ELSE 10 * DigitsVal(SubSeq(s, 1, Len(s) - 1)) + DigitVal(s[Len(s)])

RECURSIVE Pow10(_)
Pow10(n) == IF n = 0 THEN 1 ELSE 10 * Pow10(n - 1)

\* Position of the first "." in s, or 0.
DotPos(s) == IF \E i \in 1..Len(s) : s[i] = "."
             THEN CHOOSE i \in 1..Len(s) : s[i] = "." /\ \A j \in 1..(i - 1) : s[j] # "."
             ELSE 0

\* Unsigned decimal literal: digits, digits "." [digits] or [digits] "." digits.
ParseUnsigned(s) ==
    LET d == DotPos(s)
        ip == IF d = 0 THEN s ELSE SubSeq(s, 1, d - 1)
        fp == IF d = 0 THEN <<>> ELSE SubSeq(s, d + 1, Len(s))
    IN IF /\ Len(ip) + Len(fp) > 0
          /\ AllDigits(ip, 1, Len(ip))
          /\ AllDigits(fp, 1, Len(fp))
       THEN <<DigitsVal(ip \o fp), Pow10(Len(fp))>>
       ELSE ValueError

\* float(s) on the decimal literals (no exponent, inf or nan): <<num, den>>
\* or ValueError.
float(s) ==
    LET t == RStrip(LStrip(s))
        neg == t # <<>> /\ Head(t) = "-"
        body == IF t # <<>> /\ Head(t) \in {"-", "+"} THEN Tail(t) ELSE t
        u == ParseUnsigned(body)
    IN IF u = ValueError THEN ValueError
       ELSE IF neg THEN <<-u[1], u[2]>> ELSE u

\* int(x): truncation toward zero.
int(x) == IF x[1] >= 0 THEN x[1] \div x[2] ELSE -((-x[1]) \div x[2])

\* int(x + off) - off
Coord(x, off) == int(<<x[1] + off * x[2], x[2]>>) - off

----
\* The input lines of the model.

Quoted(s) == <<Q>> \o s \o <<Q>>

RECURSIVE Join(_)
Join(fields) == IF Len(fields) = 1 THEN fields[1]
                ELSE fields[1] \o <<",">> \o Join(Tail(fields))

USAF == <<"0", "2", "9", "0", "7", "0">>
WBAN == <<"9", "9", "9", "9", "9">>
Name == Quoted(<<"D", "E", " ", "K", "O", "O", "Y">>)

\* A catalogue row: USAF, WBAN, name, three more columns, LAT, LON and the
\* columns that follow, ended by a newline.
Row(usaf, wban, la, lo) ==
    Join(<<usaf, wban, Name, <<>>, <<>>, <<>>, la, lo, Quoted(<<"+", "0">>)>>) \o <<NL>>

\* A row that ends with the LON column.
Row8(usaf, wban, la, lo) ==
    Join(<<usaf, wban, Name, <<>>, <<>>, <<>>, la, lo>>)

GoodRow(la, lo) == Row(Quoted(USAF), Quoted(WBAN), Quoted(la), Quoted(lo))

Lines == {
    GoodRow(<<"5", "1", ".", "9">>, <<"4", ".", "4">>),
    GoodRow(<<"-", "0", ".", "5">>, <<"-", "0", ".", "5">>),
    GoodRow(<<"-", "9", "0", ".", "5">>, <<"0">>),
    GoodRow(<<"1", "0">>, <<"-", "1", "8", "0", ".", "5">>),
    GoodRow(<<"9", "0">>, <<"1", "8", "0">>),
    GoodRow(<<>>, <<>>),
    GoodRow(<<"-", "6", "0">>, <<"x">>),
    Row(Quoted(<<"1", "2", "3", "4", "5">>), Quoted(<<"6", "7", "8", "9">>),
        Quoted(<<"1", "0">>), Quoted(<<"2", "0">>)),
    Row(USAF, WBAN, Quoted(<<"1", "0">>), Quoted(<<"2", "0">>)),
    Join(<<Quoted(USAF), Quoted(WBAN), Name, <<>>, <<>>>>) \o <<NL>>,
    Join(<<Quoted(<<"x">>), Quoted(WBAN)>>) \o <<NL>>,
    Row8(Quoted(USAF), Quoted(WBAN), Quoted(<<"5", "1", ".", "9">>),
         Quoted(<<"4", ".", "4">>)) \o <<NL>>,
    Row8(Quoted(USAF), Quoted(WBAN), Quoted(<<"-", "6", "0">>),
         Quoted(<<"1", "7", "9", ".", "5">>))
}

EndsWithNL(s) == s # <<>> /\ s[Len(s)] = NL

\* Inputs: at most MaxLines lines; every line but the last ends in a newline.
Inputs ==
    {s \in UNION {[1..n -> Lines] : n \in 0..MaxLines} :
        \A i \in 1..(Len(s) - 1) : EndsWithNL(s[i])}

---------------------------------------------------------------------------
\* One run of main.

Banner == <<[comment |-> 1], [comment |-> 2]>>

Init ==
    /\ input \in Inputs
    /\ rest = input
    /\ line_num = 0
    /\ stdout = <<>>
    /\ stderr = <<>>
    /\ lat = Unbound /\ lon = Unbound /\ region = Unbound
    /\ pc = "start"

\* The two comment lines, then line_num = 0.
PrintBanner ==
    /\ pc = "start"
    /\ stdout' = stdout \o Banner
    /\ line_num' = 0
    /\ pc' = "loop"
    /\ UNCHANGED <<input, rest, stderr, lat, lon, region>>

\* Variant: the header is skipped before it is counted.
SkipHeader_nocount ==
    /\ pc = "loop" /\ rest # <<>>
    /\ line_num = 0
    /\ rest' = Tail(rest)
    /\ UNCHANGED <<input, line_num, stdout, stderr, lat, lon, region, pc>>

\* for line in sys.stdin: line_num += 1; if line_num == 1: continue
SkipHeader ==
    /\ pc = "loop" /\ rest # <<>>
    /\ line_num + 1 = 1
    /\ line_num' = line_num + 1
    /\ rest' = Tail(rest)
    /\ UNCHANGED <<input, stdout, stderr, lat, lon, region, pc>>

\* Variant: the diagnostic numbers data lines from 1.
TooFewFields_dataline ==
    /\ pc = "loop" /\ rest # <<>>
    /\ line_num + 1 # 1
    /\ Len(Split(Head(rest))) < 8
    /\ line_num' = line_num + 1
    /\ rest' = Tail(rest)
    /\ stderr' = Append(stderr, [msg |-> "Too few fields", line |-> line_num])
    /\ UNCHANGED <<input, stdout, lat, lon, region, pc>>

\* if len(fields) < 8: write the diagnostic; continue
TooFewFields ==
    /\ pc = "loop" /\ rest # <<>>
    /\ line_num + 1 # 1
    /\ Len(Split(Head(rest))) < 8
    /\ line_num' = line_num + 1
    /\ rest' = Tail(rest)
    /\ stderr' = Append(stderr, [msg |-> "Too few fields", line |-> line_num + 1])
    /\ UNCHANGED <<input, stdout, lat, lon, region, pc>>

\* Variant: an invalid station ends the loop.
InvalidStation_abort ==
    /\ pc = "loop" /\ rest # <<>>
    /\ line_num + 1 # 1
    /\ LET fields == Split(Head(rest)) IN
       /\ Len(fields) >= 8
       /\ ~valid_id(StationOf(fields))
       /\ stderr' = Append(stderr, [msg |-> "Invalid station",
                                    station |-> StationOf(fields),
                                    line |-> line_num + 1])
    /\ line_num' = line_num + 1
    /\ rest' = Tail(rest)
    /\ pc' = "done"
    /\ UNCHANGED <<input, stdout, lat, lon, region>>

\* if not valid_id.match(station): write the diagnostic; continue
InvalidStation ==
    /\ pc = "loop" /\ rest # <<>>
    /\ line_num + 1 # 1
    /\ LET fields == Split(Head(rest)) IN
       /\ Len(fields) >= 8
       /\ ~valid_id(StationOf(fields))
       /\ stderr' = Append(stderr, [msg |-> "Invalid station",
                                    station |-> StationOf(fields),
                                    line |-> line_num + 1])
    /\ line_num' = line_num + 1
    /\ rest' = Tail(rest)
    /\ UNCHANGED <<input, stdout, lat, lon, region, pc>>

\* The try block runs to its end: both coordinates parse and get_region is
\* called; an exception of get_region would be caught like any other.
EmitClassified ==
    /\ pc = "loop" /\ rest # <<>>
    /\ line_num + 1 # 1
    /\ LET fields == Split(Head(rest)) IN
       /\ Len(fields) >= 8
       /\ valid_id(StationOf(fields))
       /\ LET flat == float(Slice1(fields[7]))
              flon == float(Slice1(fields[8]))
          IN /\ flat # ValueError
             /\ flon # ValueError
             /\ lat' = Coord(flat, 90)
             /\ lon' = Coord(flon, 180)
             /\ region' = LET r == get_region(lat', lon')
                          IN IF r = IndexError THEN "D" ELSE r
       /\ stdout' = Append(stdout, [station |-> StationOf(fields),
                                    region |-> region'])
    /\ line_num' = line_num + 1
    /\ rest' = Tail(rest)
    /\ UNCHANGED <<input, stderr, pc>>

\* Variant: the except clause leaves region as it was.
EmitDefault_stale ==
    /\ pc = "loop" /\ rest # <<>>
    /\ line_num + 1 # 1
    /\ LET fields == Split(Head(rest)) IN
       /\ Len(fields) >= 8
       /\ valid_id(StationOf(fields))
       /\ LET flat == float(Slice1(fields[7]))
              flon == float(Slice1(fields[8]))
          IN /\ flat = ValueError \/ flon = ValueError
             /\ lat' = IF flat = ValueError THEN lat ELSE Coord(flat, 90)
             /\ lon' = lon
       /\ stdout' = Append(stdout, [station |-> StationOf(fields),
                                    region |-> region])
    /\ line_num' = line_num + 1
    /\ rest' = Tail(rest)
    /\ UNCHANGED <<input, stderr, region, pc>>

\* float() raises on the latitude (lat and lon keep their values) or on the
\* longitude (lat is already assigned); except: region = 'D'.
EmitDefault ==
    /\ pc = "loop" /\ rest # <<>>
    /\ line_num + 1 # 1
    /\ LET fields == Split(Head(rest)) IN
       /\ Len(fields) >= 8
       /\ valid_id(StationOf(fields))
       /\ LET flat == float(Slice1(fields[7]))
              flon == float(Slice1(fields[8]))
          IN /\ flat = ValueError \/ flon = ValueError
             /\ lat' = IF flat = ValueError THEN lat ELSE Coord(flat, 90)
             /\ lon' = lon
       /\ region' = "D"
       /\ stdout' = Append(stdout, [station |-> StationOf(fields),
                                    region |-> region'])
    /\ line_num' = line_num + 1
    /\ rest' = Tail(rest)
    /\ UNCHANGED <<input, stderr, pc>>

\* sys.stdin is exhausted: the loop and main end.
Finish ==
    /\ pc = "loop" /\ rest = <<>>
    /\ pc' = "done"
    /\ UNCHANGED <<input, rest, line_num, stdout, stderr, lat, lon, region>>

Next ==
    \/ PrintBanner
    \/ SkipHeader
    \/ TooFewFields
    \/ InvalidStation
    \/ EmitClassified
    \/ EmitDefault
    \/ Finish

Spec == Init /\ [][Next]_vars

---------------------------------------------------------------------------
\* Claims about main, checked under Spec.

\* Number of lines the loop has consumed.
Pos == Len(input) - Len(rest)

CommaCount(line) == Cardinality({i \in 1..Len(line) : line[i] = ","})

\* Six digits, a hyphen and five digits, and nothing else.
MatchesPattern(s) ==
    /\ Len(s) = 12
    /\ \A i \in (1..6) \cup (8..12) : s[i] \in {DigitChars[d] : d \in 1..10}
    /\ s[7] = "-"

\* The line the loop is about to process is data line number n >= 2.
AtDataLine == pc = "loop" /\ rest # <<>> /\ Pos >= 1

NextStation == StationOf(Split(Head(rest)))

\* The stations the first n input lines are to put on standard output.
RECURSIVE ExpectedStations(_)
ExpectedStations(n) ==
    IF n <= 1 THEN <<>>
    ELSE LET st == StationOf(Split(input[n])) IN
         IF CommaCount(input[n]) >= 7 /\ MatchesPattern(st)
         THEN Append(ExpectedStations(n - 1), st)
         ELSE ExpectedStations(n - 1)

C6_TooFewFields ==
    [][(AtDataLine /\ CommaCount(Head(rest)) < 7) =>
          /\ stdout' = stdout
          /\ stderr' = Append(stderr, [msg |-> "Too few fields",
                                       line |-> Pos + 1])]_vars

C6_Witness ==
    /\ Len(stderr) = 2
    /\ stderr[1].line = 2
    /\ stderr[2] = [msg |-> "Too few fields", line |-> 3]
    /\ CommaCount(input[3]) < 7
    /\ ~MatchesPattern(StationOf(Split(input[3]) \o <<<<>>>>))

\* C7: a non-header line with at least 8 fields whose station identifier is
\* not six digits, a hyphen and five digits adds nothing to standard output
\* and exactly one "Invalid station" diagnostic with the identifier and the
\* line number; every station identifier on standard output matches.
C7_InvalidStation ==
    [][/\ (AtDataLine /\ CommaCount(Head(rest)) >= 7
                      /\ ~MatchesPattern(NextStation)) =>
             /\ stdout' = stdout
             /\ stderr' = Append(stderr, [msg |-> "Invalid station",
                                          station |-> NextStation,
                                          line |-> Pos + 1])
       /\ \A i \in 3..Len(stdout') : MatchesPattern(stdout'[i].station)]_vars

C7_Witness ==
    /\ Len(stdout) = 3
    /\ Len(stderr) = 1
    /\ stderr[1].msg = "Invalid station"
    /\ stderr[1].line = 3
    /\ stderr[1].station = <<"1", "2", "3", "4", "5", "-", "6", "7", "8", "9">>

\* C8: a non-header line with at least 8 fields and a valid station
\* identifier whose latitude or longitude does not parse adds exactly one
\* line to standard output, with region "D", and no diagnostic.
C8_DefaultRegion ==
    [][(/\ AtDataLine /\ CommaCount(Head(rest)) >= 7
        /\ MatchesPattern(NextStation)
        /\ \/ float(Slice1(Split(Head(rest))[7])) = ValueError
           \/ float(Slice1(Split(Head(rest))[8])) = ValueError) =>
          /\ stdout' = Append(stdout, [station |-> NextStation, region |-> "D"])
          /\ stderr' = stderr]_vars

C8_Witness ==
    /\ Len(stdout) = 4
    /\ stdout[3].region = "A4"
    /\ stdout[4].region = "D"
    /\ stderr = <<>>
    /\ Pos = 3
    /\ float(Slice1(Split(input[3])[7])) # ValueError
    /\ float(Slice1(Split(input[3])[8])) = ValueError

\* C9: the first input line adds nothing to standard output or to the error
\* channel whatever it contains, and it is counted: a diagnostic about the
\* second input line says line 2.
C9_Header ==
    [][/\ (pc = "loop" /\ rest # <<>> /\ Pos = 0) =>
             (stdout' = stdout /\ stderr' = stderr /\ line_num' = 1)
       /\ (pc = "loop" /\ rest # <<>> /\ Pos = 1 /\ stderr' # stderr) =>
             stderr'[Len(stderr')].line = 2]_vars

C9_Witness ==
    /\ pc = "done"
    /\ Len(input) >= 2
    /\ CommaCount(input[1]) < 7
    /\ stdout = Banner
    /\ Len(stderr) = Len(input) - 1
    /\ stderr[1].line = 2

\* floor of a parsed value.
Floor(x) == x[1] \div x[2]

\* C10: for a valid record whose coordinates parse to latv and lonv, the
\* truncated coordinates are floor(latv) and floor(lonv), whatever the
\* values, and the region written is get_region(floor(latv), floor(lonv)).
C10_FloorCoordinates ==
    (/\ pc \in {"loop", "done"} /\ Pos >= 2
     /\ CommaCount(input[Pos]) >= 7
     /\ MatchesPattern(StationOf(Split(input[Pos])))
     /\ float(Slice1(Split(input[Pos])[7])) # ValueError
     /\ float(Slice1(Split(input[Pos])[8])) # ValueError) =>
        LET latv == float(Slice1(Split(input[Pos])[7]))
            lonv == float(Slice1(Split(input[Pos])[8]))
        IN /\ lat = Floor(latv)
           /\ lon = Floor(lonv)
           /\ stdout[Len(stdout)].region = get_region(Floor(latv), Floor(lonv))

====
